---- MODULE Spec2Model ----
(***************************************************************************)
(* The Chunk Retrieval Index of the RAG backend: the VectorStore of        *)
(* src/app/vectore_store.py (a FAISS inner-product index, the aligned list *)
(* of chunk identities and their two snapshot files) as it is driven by    *)
(* the request handlers of src/app/main.py.                                *)
(*                                                                         *)
(* Floats are fixed-point integers: Unit stands for 1.0 in a vector        *)
(* component and One = Unit * Unit for 1.0 in an inner product.            *)
(***************************************************************************)
EXTENDS Integers, Sequences, FiniteSets, TLC

\* ------------------------------------------------------------------ bounds
\* The largest number of entries the index is driven to.
MaxLen == 3
\* The largest batch one add_chunks call is given.
MaxBatch == 2
\* The largest k one search call is given.
MaxK == 3
\* The number of times the process is let die in the middle of its work.
MaxCrashes == 1
\* The number of times save_index is let fail.
MaxSaveFailures == 1
\* The longest text chunk_text is given.
MaxTextLen == 5
\* The largest chunk_size, and the largest overlap, chunk_text is given.
MaxChunkSize == 3
\* The largest number of documents uploaded.
MaxDocs == 2

\* ---------------------------------------------------------- float32 values
Unit == 2 * 5
One == Unit * Unit
\* FLT_MAX, the largest finite float32; -FltMax fills FAISS's unused result slots.
FltMax == One * One
NegInf == -(FltMax + 1)
NaN == FltMax + 2

IsNaN(x) == x = NaN

\* x >= y on floats: every comparison with NaN is false.
FloatGE(x, y) == ~IsNaN(x) /\ ~IsNaN(y) /\ x >= y

Min(a, b) == IF a <= b THEN a ELSE b

Max(a, b) == IF a >= b THEN a ELSE b

RECURSIVE SumSeq(_)
SumSeq(s) == IF s = <<>> THEN 0 ELSE Head(s) + SumSeq(Tail(s))

RECURSIVE Flatten(_)
Flatten(ss) == IF ss = <<>> THEN <<>> ELSE Head(ss) \o Flatten(Tail(ss))

\* The largest r with r * r <= n.
ISqrt(n) == CHOOSE r \in 0..n : r * r <= n /\ (r + 1) * (r + 1) > n

\* ------------------------------------------------------------- the embedder
\* The index dimension (384 in the program, 2 here).
dimension == 2

\* The chunk and query texts the requests carry.
Texts == {"a", "b", "c"}

\* SentenceTransformer.encode: the raw (not yet normalised) embedding of a text;
\* "z" is a degenerate text whose raw embedding is the zero vector.
ModelEncode(text) ==
    CASE text = "a" -> <<3, 0>>
      [] text = "b" -> <<0, 2>>
      [] text = "c" -> <<3, 4>>
      [] text = "ab" -> <<3, 2>>
      [] text = "bc" -> <<3, 6>>
      [] OTHER -> <<0, 0>>

\* np.linalg.norm(embedding, axis=1, keepdims=True)
Norm(v) == ISqrt(SumSeq([i \in 1..Len(v) |-> v[i] * v[i]]))

\* numpy float division: x / 0 is NaN or an infinity and raises nothing; the
\* components of a zero vector are 0 / 0 = NaN.
FloatDiv(x, n) == IF n = 0 THEN NaN ELSE (x * Unit) \div n

\* VectorStore.encode_text: encode, divide by the norm, cast to float32.
encode_text(text) ==
    LET embedding == ModelEncode(text)
        n == Norm(embedding)
    IN  [i \in 1..Len(embedding) |-> FloatDiv(embedding[i], n)]

\* The inner product IndexFlatIP scores with; NaN in, NaN out.
InnerProduct(u, v) ==
    IF \E i \in 1..Len(u) : IsNaN(u[i]) \/ IsNaN(v[i])
    THEN NaN
    ELSE SumSeq([i \in 1..Len(u) |-> u[i] * v[i]])

\* ------------------------------------------------------- the FAISS index
\* faiss.IndexFlatIP(dimension): the rows of the dense store, in insertion order.
IndexFlatIP == <<>>

\* index.ntotal
ntotal(idx) == Len(idx)

\* A slip in IndexAdd: the rows of the array are appended last row first.
IndexAddReversed(idx, rows) == idx \o [i \in 1..Len(rows) |-> rows[Len(rows) + 1 - i]]

\* index.add(array): the rows are appended in the order of the array.
IndexAdd(idx, rows) == idx \o rows

\* index.reconstruct(i), i counted from 0: the stored row; FAISS raises outside
\* 0..ntotal-1.
CanReconstruct(idx, i) == i >= 0 /\ i < ntotal(idx)
Reconstruct(idx, i) == idx[i + 1]

\* index.search(query, k): k (score, label) slots, labels counted from 0. The
\* slots hold the best min(k, ntotal) rows by inner product in descending score;
\* a NaN score never enters the result heap; unused slots hold (-FLT_MAX, -1).
\* FAISS states no order among rows of equal score, so every order is an outcome.
IndexSearch(idx, q, k) ==
    LET score == [i \in 1..Len(idx) |-> InnerProduct(q, idx[i])]
        cands == {i \in 1..Len(idx) : ~IsNaN(score[i])}
        m == Min(k, Cardinality(cands))
        rankings ==
            {p \in [1..m -> cands] :
                /\ \A i, j \in 1..m : i # j => p[i] # p[j]
                /\ \A i, j \in 1..m : i < j => score[p[i]] >= score[p[j]]
                /\ \A c \in cands \ {p[i] : i \in 1..m} :
                       \A i \in 1..m : score[c] <= score[p[i]]}
    IN  {[i \in 1..k |-> IF i <= m THEN <<score[p[i]], p[i] - 1>>
                                   ELSE <<-FltMax, -1>>] : p \in rankings}

\* ------------------------------------------------------- Python list access
\* list[idx] for an integer idx: a negative idx counts from the end, and an idx
\* outside -len..len-1 raises IndexError.
PyInRange(list, idx) == idx < Len(list) /\ idx >= -Len(list)
PyItem(list, idx) == IF idx >= 0 THEN list[idx + 1] ELSE list[Len(list) + idx + 1]

\* ------------------------------------------------------------ persistence
\* A file is <<>> when absent and <<words>> when present; a file opened for
\* writing and not yet written holds no words.
NoFile == <<>>
Truncated == << <<>> >>

\* faiss.write_index: the header (d, ntotal) and then the rows, flattened.
write_index(idx) == <<dimension, Len(idx)>> \o Flatten(idx)

\* faiss.read_index raises unless the header and all the rows it announces are there.
CanReadIndex(words) ==
    /\ Len(words) >= 2
    /\ Len(words) = 2 + words[1] * words[2]

\* A slip in read_index: the words are taken column by column.
read_index_by_column(words) ==
    LET d == words[1]
        n == words[2]
    IN  [i \in 1..n |-> [j \in 1..d |-> words[2 + (j - 1) * n + i]]]

read_index(words) ==
    LET d == words[1]
        n == words[2]
    IN  [i \in 1..n |-> [j \in 1..d |-> words[2 + (i - 1) * d + j]]]

\* pickle.dump of the list of (chunk_id, doc_id) tuples: the length, then the tuples.
pickle_dump(ids) == <<Len(ids)>> \o Flatten(ids)

\* pickle.load raises on an empty or cut-off stream.
CanUnpickle(words) ==
    /\ Len(words) >= 1
    /\ Len(words) = 1 + 2 * words[1]

pickle_load(words) ==
    [i \in 1..words[1] |-> <<words[2 * i], words[2 * i + 1]>>]

\* ------------------------------------------------------------------ state
\* The chunk identities (chunk_id, doc_id) the handlers hand to the store.
IdSet == {<<0, 1>>, <<1, 2>>}

\* The thresholds a search is given: 0.5 (the handlers' value), 1.0, and values
\* outside [-1, 1], -infinity among them.
Thresholds == {NegInf, -2 * One, One \div 2, One, 2 * One}

\* The requests the event loop serves concurrently.
Requests == {1, 2}

VARIABLES
    proc,           \* "down": not running; "initialized": the store is constructed;
                    \* "up": serving requests; "failed": the constructor raised
    index,          \* self.index: the rows of the FAISS index
    chunk_ids,      \* self.chunk_ids
    index_file,     \* faiss_index.bin
    metadata_file,  \* chunk_metadata.pkl
    req,            \* per request: the VectorStore call it is in, and where
    entries,        \* history: the (identity, vector) pairs committed, in order,
                    \* followed until the process first dies or a save first fails
    saved,          \* history: what the last completed save_index wrote
    lost,           \* history: the call a crash interrupted, until the next start-up ends
    crashes,        \* history: how many times the process died
    save_failures,  \* history: how many times save_index raised
    chunker,        \* the call of chunk_text in progress: its arguments and locals
    db,             \* the relational store: the committed document and chunk rows
    cycle           \* history: the add, delete, add again of one batch a caller is at

vars == <<proc, index, chunk_ids, index_file, metadata_file, req, entries, saved,
          lost, crashes, save_failures, chunker, db, cycle>>

\* The state of a request that is in no VectorStore call.
Idle ==
    [op |-> "none", pc |-> "idle", texts |-> <<>>, ids |-> <<>>, del |-> {},
     threshold |-> 0, k |-> 0, embeddings |-> <<>>, keep |-> <<>>,
     new_ids |-> <<>>, hits |-> <<>>, result |-> <<>>, outcome |-> "none",
     pre |-> <<>>, user |-> 0, doc |-> 0, text |-> "", response |-> <<>>]

\* What a call sees on entry (history, for stating what the call did).
Snapshot ==
    [index |-> index, chunk_ids |-> chunk_ids,
     index_file |-> index_file, metadata_file |-> metadata_file]

\* No call of chunk_text is in progress.
NoChunker ==
    [pc |-> "idle", text |-> "", chunk_size |-> 0, overlap |-> 0, start |-> 0,
     chunks |-> <<>>]

\* The relational store of a fresh deployment: no document and no chunk rows.
EmptyDb == [documents |-> {}, chunks |-> {}]

\* No caller is in the middle of adding, deleting and adding a batch again.
NoCycle == [stage |-> 0, texts |-> <<>>, ids |-> <<>>, first |-> <<>>]

\* Sequences over S of length 0..n.
SeqsUpTo(S, n) == UNION {[1..m -> S] : m \in 0..n}

Init ==
    /\ proc = "up"
    /\ index = IndexFlatIP
    /\ chunk_ids = <<>>
    /\ index_file = NoFile
    /\ metadata_file = NoFile
    /\ req = [r \in Requests |-> Idle]
    /\ entries = <<>>
    /\ saved = <<>>
    /\ lost = <<>>
    /\ crashes = 0
    /\ save_failures = 0
    /\ chunker = NoChunker
    /\ db = EmptyDb
    /\ cycle = NoCycle

\* --------------------------------------------------------- the event loop
\* What the guard would be if the handlers ran in a thread pool (plain def
\* handlers): a request runs whatever the others are doing.
ThreadPoolFree(r) == r \in Requests

\* The handlers are coroutines (async def) that call the store synchronously and
\* never await between the call and their return: the event loop runs another
\* request only while no request is inside a VectorStore call.
EventLoopFree(r) == \A q \in Requests \ {r} : req[q].pc = "idle"

\* Request r may take its next step.
Runs(r, pc) ==
    /\ proc = "up"
    /\ req[r].pc = pc
    /\ EventLoopFree(r)

\* What lies outside the VectorStore and its files.
Outside == <<save_failures, chunker, db, cycle>>

Frame == UNCHANGED <<proc, saved, lost, crashes, Outside>>

Memory == <<index, chunk_ids>>
Disk == <<index_file, metadata_file>>

Done(r, outcome) == [req[r] EXCEPT !.pc = "done", !.outcome = outcome]

\* ------------------------------------------------------------- add_chunks
\* upload_file calls vector_store.add_chunks(chunk_texts, chunk_keys); both lists
\* are built by one loop over the chunks, so they have the same length.
BeginAdd(r) ==
    /\ Runs(r, "idle")
    /\ \E texts \in SeqsUpTo(Texts, MaxBatch) :
       \E ids \in [1..Len(texts) -> IdSet] :
          /\ Len(index) + Len(texts) <= MaxLen
          /\ Len(chunk_ids) + Len(ids) <= MaxLen
          /\ req' = [req EXCEPT ![r] =
                 [Idle EXCEPT !.op = "add", !.pc = "encode", !.texts = texts,
                              !.ids = ids, !.pre = <<Snapshot>>]]
    /\ UNCHANGED <<Memory, Disk, entries>>
    /\ Frame

\* Texts whose raw embedding is the zero vector.
ZeroNormTexts == {"z"}

\* add_chunks called with a batch that may hold a text of zero-norm embedding.
BeginAddZeroNorm(r) ==
    /\ Runs(r, "idle")
    /\ \E texts \in SeqsUpTo(Texts \cup ZeroNormTexts, MaxBatch) :
       \E ids \in [1..Len(texts) -> IdSet] :
          /\ Len(index) + Len(texts) <= MaxLen
          /\ req' = [req EXCEPT ![r] =
                 [Idle EXCEPT !.op = "add", !.pc = "encode", !.texts = texts,
                              !.ids = ids, !.pre = <<Snapshot>>]]
    /\ UNCHANGED <<Memory, Disk, entries>>
    /\ Frame

\* add_chunks called with any two lists, of equal length or not.
BeginAddUnequal(r) ==
    /\ Runs(r, "idle")
    /\ \E texts \in SeqsUpTo(Texts, MaxBatch), ids \in SeqsUpTo(IdSet, MaxBatch) :
          /\ Len(index) + Len(texts) <= MaxLen
          /\ Len(chunk_ids) + Len(ids) <= MaxLen
          /\ req' = [req EXCEPT ![r] =
                 [Idle EXCEPT !.op = "add", !.pc = "encode", !.texts = texts,
                              !.ids = ids, !.pre = <<Snapshot>>]]
    /\ UNCHANGED <<Memory, Disk, entries>>
    /\ Frame

\* The (identity, vector) pairs a successful add_chunks(texts, ids) commits: the
\* identities and the embeddings that stand at the same place of the two lists.
Batch(texts, ids) ==
    [i \in 1..Min(Len(texts), Len(ids)) |-> <<ids[i], encode_text(texts[i])>>]

\* A slip in AddEncode: every embedding is stored as soon as it is computed, so
\* a failure at text j leaves the first j - 1 texts of the batch in the store.
AddEncodeEager(r) ==
    /\ Runs(r, "encode")
    /\ \/ /\ \E j \in 1..Len(req[r].texts) :
                /\ index' = IndexAdd(index,
                       [i \in 1..(j - 1) |-> encode_text(req[r].texts[i])])
                /\ chunk_ids' = chunk_ids \o SubSeq(req[r].ids, 1, j - 1)
          /\ req' = [req EXCEPT ![r] = Done(r, "EncodeRaised")]
       \/ /\ req' = [req EXCEPT ![r] =
                 IF req[r].texts = <<>> THEN Done(r, "ok")
                 ELSE [req[r] EXCEPT !.pc = "save_open_index"]]
          /\ index' = IndexAdd(index,
                 [i \in 1..Len(req[r].texts) |-> encode_text(req[r].texts[i])])
          /\ chunk_ids' = chunk_ids \o req[r].ids
    /\ UNCHANGED <<Disk, entries>>
    /\ Frame

\* The loop that embeds every text before anything is stored; model.encode may
\* raise at any text, and the exception leaves add_chunks at once. An empty
\* batch returns without touching the index.
AddEncode(r) ==
    /\ Runs(r, "encode")
    /\ \/ /\ req[r].texts # <<>>
          /\ req' = [req EXCEPT ![r] = Done(r, "EncodeRaised")]
          /\ UNCHANGED entries
       \/ LET embeddings == [i \in 1..Len(req[r].texts) |-> encode_text(req[r].texts[i])]
          IN  IF embeddings = <<>>
              THEN /\ req' = [req EXCEPT ![r] = Done(r, "ok")]
                   /\ UNCHANGED entries
              ELSE /\ req' = [req EXCEPT ![r].pc = "index_add",
                                         ![r].embeddings = embeddings]
                   /\ UNCHANGED entries
    /\ UNCHANGED <<Memory, Disk>>
    /\ Frame

\* self.index.add(embeddings_array)
AddIndex(r) ==
    /\ Runs(r, "index_add")
    /\ index' = IndexAdd(index, req[r].embeddings)
    /\ req' = [req EXCEPT ![r].pc = "extend"]
    /\ UNCHANGED <<chunk_ids, Disk, entries>>
    /\ Frame

\* A slip in AddExtend: the batch's identities are put in front of the list.
AddExtendInFront(r) ==
    /\ Runs(r, "extend")
    /\ chunk_ids' = req[r].ids \o chunk_ids
    /\ req' = [req EXCEPT ![r].pc = "save_open_index"]
    /\ UNCHANGED <<index, Disk, entries>>
    /\ Frame

\* A slip in AddExtend: add_chunks returns without calling save_index.
AddExtendUnsaved(r) ==
    /\ Runs(r, "extend")
    /\ chunk_ids' = chunk_ids \o req[r].ids
    /\ req' = [req EXCEPT ![r] = Done(r, "ok")]
    /\ UNCHANGED <<index, Disk, entries>>
    /\ Frame

\* A slip in AddExtend: save_index is called before the identities are appended,
\* so the save runs (and may fail) on an identity list that lacks the batch.
AddExtendDeferred(r) ==
    /\ Runs(r, "extend")
    /\ req' = [req EXCEPT ![r].pc = "save_open_index"]
    /\ UNCHANGED <<Memory, Disk, entries>>
    /\ Frame

\* self.chunk_ids.extend(chunk_ids), then save_index()
AddExtend(r) ==
    /\ Runs(r, "extend")
    /\ chunk_ids' = chunk_ids \o req[r].ids
    /\ req' = [req EXCEPT ![r].pc = "save_open_index"]
    /\ UNCHANGED <<index, Disk, entries>>
    /\ Frame

\* ---------------------------------------------------------- delete_chunks
\* delete_document calls vector_store.delete_chunks(chunk_keys).
BeginDelete(r) ==
    /\ Runs(r, "idle")
    /\ \E del \in SUBSET IdSet :
          req' = [req EXCEPT ![r] =
              [Idle EXCEPT !.op = "delete", !.pc = "scan", !.del = del,
                           !.pre = <<Snapshot>>]]
    /\ UNCHANGED <<Memory, Disk, entries>>
    /\ Frame

\* The positions (counted from 0) of the identities that are not in del, in order.
RECURSIVE IndicesToKeep(_, _, _)
IndicesToKeep(ids, del, i) ==
    IF i > Len(ids) THEN <<>>
    ELSE (IF ids[i] \notin del THEN <<i - 1>> ELSE <<>>)
         \o IndicesToKeep(ids, del, i + 1)

\* A slip in DeleteScan: the positions are counted from 1 (enumerate(..., 1)).
DeleteScanFromOne(r) ==
    /\ Runs(r, "scan")
    /\ IF req[r].del = {}
       THEN req' = [req EXCEPT ![r] = Done(r, "ok")]
       ELSE LET keep == IndicesToKeep(chunk_ids, req[r].del, 1)
            IN  req' = [req EXCEPT ![r].pc = "rebuild",
                                   ![r].keep = [j \in 1..Len(keep) |-> keep[j] + 1],
                                   ![r].new_ids = [j \in 1..Len(keep) |-> chunk_ids[keep[j] + 1]]]
    /\ UNCHANGED <<Memory, Disk, entries>>
    /\ Frame

\* The early return on an empty argument, and the scan that collects
\* indices_to_keep and new_chunk_ids.
DeleteScan(r) ==
    /\ Runs(r, "scan")
    /\ IF req[r].del = {}
       THEN req' = [req EXCEPT ![r] = Done(r, "ok")]
       ELSE LET keep == IndicesToKeep(chunk_ids, req[r].del, 1)
            IN  req' = [req EXCEPT ![r].pc = "rebuild",
                                   ![r].keep = keep,
                                   ![r].new_ids = [j \in 1..Len(keep) |-> chunk_ids[keep[j] + 1]]]
    /\ UNCHANGED <<Memory, Disk, entries>>
    /\ Frame

\* A slip in VectorsToKeep: the first rows are kept, whatever their positions.
VectorsToKeepPrefix(idx, keep) == [j \in 1..Len(keep) |-> Reconstruct(idx, j - 1)]

\* The rows read back from the old index, in the order of indices_to_keep.
VectorsToKeep(idx, keep) == [j \in 1..Len(keep) |-> Reconstruct(idx, keep[j])]

\* A fresh index replaces the old one: empty when nothing is kept, otherwise
\* holding the rows reconstructed from the old index. reconstruct raises on a
\* position the index does not hold, before the index is replaced.
DeleteRebuild(r) ==
    /\ Runs(r, "rebuild")
    /\ LET keep == req[r].keep
       IN  IF \E j \in 1..Len(keep) : ~CanReconstruct(index, keep[j])
           THEN /\ req' = [req EXCEPT ![r] = Done(r, "ReconstructRaised")]
                /\ UNCHANGED index
           ELSE /\ index' = IF keep = <<>> THEN IndexFlatIP
                            ELSE IndexAdd(IndexFlatIP, VectorsToKeep(index, keep))
                /\ req' = [req EXCEPT ![r].pc = "assign"]
    /\ UNCHANGED <<chunk_ids, Disk, entries>>
    /\ Frame

\* A slip in DeleteAssign: the identity list is left as it was.
DeleteAssignStale(r) ==
    /\ Runs(r, "assign")
    /\ req' = [req EXCEPT ![r].pc = "save_open_index"]
    /\ UNCHANGED <<Memory, Disk, entries>>
    /\ Frame

\* self.chunk_ids = [] or new_chunk_ids, then save_index()
DeleteAssign(r) ==
    /\ Runs(r, "assign")
    /\ chunk_ids' = IF req[r].keep = <<>> THEN <<>> ELSE req[r].new_ids
    /\ req' = [req EXCEPT ![r].pc = "save_open_index"]
    /\ UNCHANGED <<index, Disk, entries>>
    /\ Frame

\* -------------------------------------------------------------- save_index
\* faiss.write_index opens faiss_index.bin for writing, which empties it ...
SaveOpenIndex(r) ==
    /\ Runs(r, "save_open_index")
    /\ index_file' = Truncated
    /\ req' = [req EXCEPT ![r].pc = "save_write_index"]
    /\ UNCHANGED <<Memory, metadata_file, entries>>
    /\ Frame

\* ... and writes the serialized index.
SaveWriteIndex(r) ==
    /\ Runs(r, "save_write_index")
    /\ index_file' = <<write_index(index)>>
    /\ req' = [req EXCEPT ![r].pc = "save_open_meta"]
    /\ UNCHANGED <<Memory, metadata_file, entries>>
    /\ Frame

\* open(self.metadata_file, 'wb') empties chunk_metadata.pkl ...
SaveOpenMeta(r) ==
    /\ Runs(r, "save_open_meta")
    /\ metadata_file' = Truncated
    /\ req' = [req EXCEPT ![r].pc = "save_dump"]
    /\ UNCHANGED <<Memory, index_file, entries>>
    /\ Frame

\* The entries a completed call leaves committed (history).
RECURSIVE Without(_, _)
Without(ps, del) ==
    IF ps = <<>> THEN <<>>
    ELSE (IF Head(ps)[1] \in del THEN <<>> ELSE <<Head(ps)>>) \o Without(Tail(ps), del)

Committed(r) ==
    IF req[r].op = "add" THEN entries \o Batch(req[r].texts, req[r].ids)
    ELSE Without(entries, req[r].del)

\* ... and pickle.dump writes the identity list; save_index and the call return.
SaveDump(r) ==
    /\ Runs(r, "save_dump")
    /\ metadata_file' = <<pickle_dump(chunk_ids)>>
    /\ req' = [req EXCEPT ![r] = Done(r, "ok")]
    /\ entries' = IF crashes = 0 /\ save_failures = 0 THEN Committed(r) ELSE entries
    /\ saved' = <<[index |-> index, chunk_ids |-> chunk_ids]>>
    /\ UNCHANGED <<Memory, index_file, proc, lost, crashes, Outside>>

\* An I/O error (disk full, permission, a missing directory) makes
\* faiss.write_index, open or pickle.dump raise; neither save_index nor
\* add_chunks or delete_chunks catches it, so the call ends with the exception.
\* The file being written stays as the failed step left it.
SaveFails(r) ==
    /\ proc = "up"
    /\ req[r].pc \in {"save_open_index", "save_write_index", "save_open_meta", "save_dump"}
    /\ EventLoopFree(r)
    /\ save_failures < MaxSaveFailures
    /\ save_failures' = save_failures + 1
    /\ req' = [req EXCEPT ![r] = Done(r, "SaveRaised")]
    /\ entries' = <<>>
    /\ UNCHANGED <<Memory, Disk, proc, saved, lost, crashes, chunker, db, cycle>>

\* ------------------------------------------------------------------ search
\* A slip in the search loop: every slot contributes, whatever its score.
RECURSIVE SearchResultsUnfiltered(_, _, _)
SearchResultsUnfiltered(hits, ids, threshold) ==
    IF hits = <<>> THEN <<>>
    ELSE << <<PyItem(ids, Head(hits)[2]), Head(hits)[1]>> >>
         \o SearchResultsUnfiltered(Tail(hits), ids, threshold)

\* The loop over the (score, label) slots FAISS returned: a slot whose score
\* reaches the threshold contributes (chunk_ids[label], score).
RECURSIVE SearchResults(_, _, _)
SearchResults(hits, ids, threshold) ==
    IF hits = <<>> THEN <<>>
    ELSE (IF FloatGE(Head(hits)[1], threshold)
          THEN << <<PyItem(ids, Head(hits)[2]), Head(hits)[1]>> >>
          ELSE <<>>)
         \o SearchResults(Tail(hits), ids, threshold)

\* chunk_ids[idx] raises IndexError for a slot that passes the threshold and
\* whose label the identity list does not hold.
SearchRaises(hits, ids, threshold) ==
    \E i \in 1..Len(hits) :
        FloatGE(hits[i][1], threshold) /\ ~PyInRange(ids, hits[i][2])

\* A slip in Search: the empty index is not answered at once; the query is
\* embedded and FAISS is asked whatever the index holds.
SearchAlwaysAsks(r) ==
    /\ Runs(r, "idle")
    /\ \E query \in Texts :
       LET call == [Idle EXCEPT !.op = "search", !.texts = <<query>>,
                                !.pre = <<Snapshot>>, !.pc = "done"]
       IN  \/ req' = [req EXCEPT ![r] = [call EXCEPT !.outcome = "EncodeRaised"]]
           \/ \E threshold \in Thresholds, k \in 1..MaxK :
              LET args == [call EXCEPT !.threshold = threshold, !.k = k]
              IN  \E hits \in IndexSearch(index, encode_text(query), k) :
                      req' = [req EXCEPT ![r] =
                          IF SearchRaises(hits, chunk_ids, threshold)
                          THEN [args EXCEPT !.outcome = "IndexError", !.hits = hits]
                          ELSE [args EXCEPT !.outcome = "ok", !.hits = hits,
                                   !.result = SearchResults(hits, chunk_ids, threshold)]]
    /\ UNCHANGED <<Memory, Disk, entries>>
    /\ Frame

\* query_documents calls vector_store.search(question, threshold, k). An empty
\* index answers [] before the query is embedded.
Search(r) ==
    /\ Runs(r, "idle")
    /\ \E query \in Texts :
       LET call == [Idle EXCEPT !.op = "search", !.texts = <<query>>,
                                !.pre = <<Snapshot>>, !.pc = "done"]
       IN  \/ /\ ntotal(index) # 0
              /\ req' = [req EXCEPT ![r] = [call EXCEPT !.outcome = "EncodeRaised"]]
           \/ \E threshold \in Thresholds, k \in 1..MaxK :
              LET args == [call EXCEPT !.threshold = threshold, !.k = k]
              IN  IF ntotal(index) = 0
                  THEN req' = [req EXCEPT ![r] = [args EXCEPT !.outcome = "ok"]]
                  ELSE \E hits \in IndexSearch(index, encode_text(query), k) :
                      req' = [req EXCEPT ![r] =
                          IF SearchRaises(hits, chunk_ids, threshold)
                          THEN [args EXCEPT !.outcome = "IndexError", !.hits = hits]
                          ELSE [args EXCEPT !.outcome = "ok", !.hits = hits,
                                   !.result = SearchResults(hits, chunk_ids, threshold)]]
    /\ UNCHANGED <<Memory, Disk, entries>>
    /\ Frame

\* The values of k that are no valid result count.
BadKs == {-1, 0}

\* index.search(query, k) with k <= 0. search passes k on unchecked, and what
\* FAISS does with it depends on the build: a negative k always raises (numpy
\* refuses an array of negative size), k = 0 raises where the Python wrapper
\* asserts k > 0 and yields no slots elsewhere.
IndexSearchBadK(idx, q, k) ==
    {[raised |-> TRUE, slots |-> <<>>]}
        \cup (IF k = 0 THEN {[raised |-> FALSE, slots |-> <<>>]} ELSE {})

\* vector_store.search(question, threshold, k) called with k <= 0.
SearchBadK(r) ==
    /\ Runs(r, "idle")
    /\ \E query \in Texts, threshold \in Thresholds, k \in BadKs :
       LET call == [Idle EXCEPT !.op = "search", !.texts = <<query>>,
                                !.pre = <<Snapshot>>, !.pc = "done",
                                !.threshold = threshold, !.k = k]
       IN  IF ntotal(index) = 0
           THEN req' = [req EXCEPT ![r] = [call EXCEPT !.outcome = "ok"]]
           ELSE \/ req' = [req EXCEPT ![r] = [call EXCEPT !.outcome = "EncodeRaised"]]
                \/ \E answer \in IndexSearchBadK(index, encode_text(query), k) :
                      req' = [req EXCEPT ![r] =
                          IF answer.raised
                          THEN [call EXCEPT !.outcome = "FaissRaised"]
                          ELSE [call EXCEPT !.outcome = "ok", !.hits = answer.slots,
                                   !.result = SearchResults(answer.slots, chunk_ids,
                                                            threshold)]]
    /\ UNCHANGED <<Memory, Disk, entries>>
    /\ Frame

\* The handler answers its request (or reports the exception).
Return(r) ==
    /\ Runs(r, "done")
    /\ req' = [req EXCEPT ![r] = Idle]
    /\ UNCHANGED <<Memory, Disk, entries>>
    /\ Frame

\* ------------------------------------------- a batch added, deleted, added
\* The identities a list names.
Identities(ids) == {ids[i] : i \in 1..Len(ids)}

\* A caller that has added a batch deletes the identities of the batch ...
DeleteBatch(r) ==
    /\ cycle.stage = 1
    /\ BeginDelete(r)
    /\ req'[r].del = Identities(cycle.ids)

\* ... and then adds the same batch again.
AddAgain(r) ==
    /\ cycle.stage = 2
    /\ BeginAdd(r)
    /\ req'[r].texts = cycle.texts
    /\ req'[r].ids = cycle.ids

\* The call returns to that caller (history): a successful add_chunks may be
\* the first of the three calls, and the store it left is noted; then the
\* delete and the second add are counted when they succeed, and a failed call
\* is made again.
CycleReturn(r) ==
    /\ Runs(r, "done")
    /\ req' = [req EXCEPT ![r] = Idle]
    /\ \/ /\ cycle.stage = 0
          /\ req[r].op = "add"
          /\ req[r].outcome = "ok"
          /\ req[r].texts # <<>>
          /\ cycle' = [stage |-> 1, texts |-> req[r].texts, ids |-> req[r].ids,
                       first |-> <<[index |-> index, chunk_ids |-> chunk_ids]>>]
       \/ /\ cycle.stage \in {1, 2}
          /\ cycle' = IF req[r].outcome = "ok"
                       THEN [cycle EXCEPT !.stage = @ + 1] ELSE cycle
    /\ UNCHANGED <<Memory, Disk, entries, proc, saved, lost, crashes, save_failures,
                   chunker, db>>

\* -------------------------------------------------------------- chunk_text
\* The texts chunk_text is given: the prefixes of a text of distinct characters,
\* so that a segment shows which part of the text it is.
Alphabet == "abcdefgh"
ChunkTexts == {SubSeq(Alphabet, 1, n) : n \in 0..MaxTextLen}

\* The iterations the model follows a call of chunk_text for: more than a call
\* whose start offset advances can make on the longest text.
MaxChunks == MaxTextLen + 2

\* Python's text[start:end]: a negative bound counts from the end of the text,
\* and bounds outside the text are clipped to it.
PySlice(text, start, end) ==
    LET n == Len(text)
        lo == IF start < 0 THEN Max(start + n, 0) ELSE Min(start, n)
        hi == IF end < 0 THEN Max(end + n, 0) ELSE Min(end, n)
    IN  SubSeq(text, lo + 1, hi)

\* end = start + chunk_size
ChunkEnd(start, chunk_size) == start + chunk_size

\* A slip in NextStart: the overlap is added instead of subtracted.
NextStartGap(end, overlap) == end + overlap

\* A slip in NextStart: the overlap is forgotten.
NextStartNoOverlap(end, overlap) == end

\* start = end - overlap
NextStart(end, overlap) == end - overlap

\* chunk_text(text, chunk_size, overlap) is called: chunks = [], start = 0.
ChunkCall ==
    /\ chunker.pc = "idle"
    /\ \E text \in ChunkTexts, chunk_size \in 1..MaxChunkSize, overlap \in 0..MaxChunkSize :
          chunker' = [pc |-> "loop", text |-> text, chunk_size |-> chunk_size,
                      overlap |-> overlap, start |-> 0, chunks |-> <<>>]
    /\ UNCHANGED <<proc, Memory, Disk, req, entries, saved, lost, crashes,
                   save_failures, db, cycle>>

\* One pass through the body of the while loop: the segment text[start:end] is
\* appended, start moves to end - overlap, and the loop is left by break when
\* start has reached the end of the text.
ChunkIterate ==
    /\ chunker.pc = "loop"
    /\ chunker.start < Len(chunker.text)
    /\ Len(chunker.chunks) < MaxChunks
    /\ LET end == ChunkEnd(chunker.start, chunker.chunk_size)
           chunk == PySlice(chunker.text, chunker.start, end)
           start == NextStart(end, chunker.overlap)
       IN  chunker' = [chunker EXCEPT !.chunks = Append(@, chunk),
                                      !.start = start,
                                      !.pc = IF start >= Len(chunker.text)
                                             THEN "done" ELSE "loop"]
    /\ UNCHANGED <<proc, Memory, Disk, req, entries, saved, lost, crashes,
                   save_failures, db, cycle>>

\* The while condition fails (chunk_text of the empty text): return chunks.
ChunkExit ==
    /\ chunker.pc = "loop"
    /\ ~(chunker.start < Len(chunker.text))
    /\ chunker' = [chunker EXCEPT !.pc = "done"]
    /\ UNCHANGED <<proc, Memory, Disk, req, entries, saved, lost, crashes,
                   save_failures, db, cycle>>

\* chunk_text as a function: the segments the loop appends from start on.
RECURSIVE ChunksFrom(_, _, _, _)
ChunksFrom(text, chunk_size, overlap, start) ==
    IF ~(start < Len(text)) THEN <<>>
    ELSE LET end == ChunkEnd(start, chunk_size)
             next == NextStart(end, overlap)
         IN  <<PySlice(text, start, end)>>
                 \o (IF next >= Len(text) THEN <<>>
                     ELSE ChunksFrom(text, chunk_size, overlap, next))

chunk_text(text, chunk_size, overlap) == ChunksFrom(text, chunk_size, overlap, 0)

\* ------------------------------------------------------- the request handlers
\* The users that hold a token (current_user.user_id).
Users == {1, 2}

\* The texts extract_text_from_pdf yields for the uploaded files.
DocTexts == {"b", "ab", "abc"}

\* chunk_text's defaults, which upload_file uses (1000 and 200 in the program).
DefaultChunkSize == 2
DefaultOverlap == 1

\* The arguments query_documents passes to search: threshold=0.5, k=5.
QueryThreshold == One \div 2
QueryK == 5

\* The doc_id the database gives a new document row: SQLite's integer primary
\* key, one more than the largest in the table.
NewDocId(documents) ==
    IF documents = {} THEN 1
    ELSE 1 + (CHOOSE n \in {d.doc_id : d \in documents} :
                  \A d \in documents : d.doc_id <= n)

\* The Chunk rows upload_file builds: enumerate(chunks) gives chunk i (from 0)
\* chunk_id = i and chunk_idx = i.
ChunkObjects(chunks, doc_id) ==
    [i \in 1..Len(chunks) |->
        [chunk_id |-> i - 1, doc_id |-> doc_id, chunk_idx |-> i - 1,
         chunk_content |-> chunks[i]]]

\* A slip in ChunkKeys: the keys are listed last chunk first.
ChunkKeysReversed(chunk_objects) ==
    [i \in 1..Len(chunk_objects) |->
        <<chunk_objects[Len(chunk_objects) + 1 - i].chunk_id,
          chunk_objects[Len(chunk_objects) + 1 - i].doc_id>>]

\* chunk_keys = [(chunk.chunk_id, chunk.doc_id) for chunk in chunk_objects]
ChunkKeys(chunk_objects) ==
    [i \in 1..Len(chunk_objects) |->
        <<chunk_objects[i].chunk_id, chunk_objects[i].doc_id>>]

\* upload_file up to its call of add_chunks: the text is chunked, the document
\* row and then the chunk rows are committed, and add_chunks is called with the
\* chunk texts and keys. (Every upload brings a new file name and a PDF with text.)
Upload(r) ==
    /\ Runs(r, "idle")
    /\ \E user \in Users, text \in DocTexts :
       LET chunks == chunk_text(text, DefaultChunkSize, DefaultOverlap)
           doc_id == NewDocId(db.documents)
           chunk_objects == ChunkObjects(chunks, doc_id)
           chunk_texts == [i \in 1..Len(chunks) |-> chunk_objects[i].chunk_content]
       IN  /\ chunks # <<>>
           /\ Cardinality(db.documents) < MaxDocs
           /\ Len(index) + Len(chunks) <= MaxLen
           /\ db' = [documents |-> db.documents \cup {[doc_id |-> doc_id, user_id |-> user]},
                     chunks |-> db.chunks \cup {chunk_objects[i] : i \in 1..Len(chunks)}]
           /\ req' = [req EXCEPT ![r] =
                  [Idle EXCEPT !.op = "add", !.pc = "encode", !.texts = chunk_texts,
                               !.ids = ChunkKeys(chunk_objects), !.pre = <<Snapshot>>,
                               !.user = user, !.doc = doc_id, !.text = text]]
    /\ UNCHANGED <<Memory, Disk, entries, proc, saved, lost, crashes, save_failures,
                   chunker, cycle>>

\* score_map = {key: score for key, score in results}: the last score listed for a key.
ScoreMap(results, key) ==
    LET at == {i \in 1..Len(results) : results[i][1] = key}
    IN  results[CHOOSE i \in at : \A j \in at : j <= i][2]

\* The chunks of the response: the Chunk rows whose key is among the results'
\* keys, each with the score of its key, sorted by descending score; the order
\* the database lists rows of equal score in is not fixed.
Responses(results, rows) ==
    LET keys == {results[i][1] : i \in 1..Len(results)}
        found == {[chunk_id |-> c.chunk_id, doc_id |-> c.doc_id,
                   chunk_idx |-> c.chunk_idx, chunk_content |-> c.chunk_content,
                   similarity_score |-> ScoreMap(results, <<c.chunk_id, c.doc_id>>)] :
                     c \in {x \in rows : <<x.chunk_id, x.doc_id>> \in keys}}
        n == Cardinality(found)
    IN  {chunks \in [1..n -> found] :
            /\ \A i, j \in 1..n : i # j => chunks[i] # chunks[j]
            /\ \A i, j \in 1..n :
                   i < j => chunks[i].similarity_score >= chunks[j].similarity_score}

\* query_documents: search(question, threshold=0.5, k=5), then the rows of the
\* hits are read from the database and returned.
Query(r) ==
    /\ Runs(r, "idle")
    /\ \E user \in Users, question \in Texts :
       LET call == [Idle EXCEPT !.op = "query", !.texts = <<question>>,
                                !.threshold = QueryThreshold, !.k = QueryK,
                                !.user = user, !.pre = <<Snapshot>>, !.pc = "done"]
       IN  IF ntotal(index) = 0
           THEN req' = [req EXCEPT ![r] = [call EXCEPT !.outcome = "ok"]]
           ELSE \/ req' = [req EXCEPT ![r] = [call EXCEPT !.outcome = "EncodeRaised"]]
                \/ \E hits \in IndexSearch(index, encode_text(question), QueryK) :
                      IF SearchRaises(hits, chunk_ids, QueryThreshold)
                      THEN req' = [req EXCEPT ![r] =
                               [call EXCEPT !.outcome = "IndexError", !.hits = hits]]
                      ELSE LET results == SearchResults(hits, chunk_ids, QueryThreshold)
                           IN  \E chunks \in Responses(results, db.chunks) :
                                  req' = [req EXCEPT ![r] =
                                      [call EXCEPT !.outcome = "ok", !.hits = hits,
                                                   !.result = results,
                                                   !.response = chunks]]
    /\ UNCHANGED <<Memory, Disk, entries>>
    /\ Frame

\* The keys (chunk_id, doc_id) of the Chunk rows of a document.
KeysOf(document_id) ==
    {<<c.chunk_id, c.doc_id>> : c \in {x \in db.chunks : x.doc_id = document_id}}

\* A slip in DeleteDocument: the rows are deleted and committed first, and the
\* index is asked afterwards.
DeleteDocumentRowsFirst(r) ==
    /\ Runs(r, "idle")
    /\ \E user \in Users, document_id \in 1..MaxDocs :
       LET call == [Idle EXCEPT !.op = "delete", !.user = user, !.doc = document_id,
                                !.pre = <<Snapshot>>]
       IN  IF ~\E d \in db.documents : d.doc_id = document_id /\ d.user_id = user
           THEN /\ req' = [req EXCEPT ![r] =
                       [call EXCEPT !.pc = "done", !.outcome = "NotFound"]]
                /\ UNCHANGED db
           ELSE /\ req' = [req EXCEPT ![r] =
                       IF KeysOf(document_id) = {}
                       THEN [call EXCEPT !.pc = "done", !.outcome = "ok"]
                       ELSE [call EXCEPT !.pc = "scan", !.del = KeysOf(document_id)]]
                /\ db' = [documents |-> {d \in db.documents : d.doc_id # document_id},
                          chunks |-> {c \in db.chunks : c.doc_id # document_id}]
    /\ UNCHANGED <<Memory, Disk, entries, proc, saved, lost, crashes, save_failures,
                   chunker, cycle>>

\* delete_document up to its call of delete_chunks: 404 unless the caller owns
\* the document; the keys of the document's Chunk rows are read, and
\* delete_chunks is called with them when there are any.
DeleteDocument(r) ==
    /\ Runs(r, "idle")
    /\ \E user \in Users, document_id \in 1..MaxDocs :
       LET call == [Idle EXCEPT !.op = "delete", !.user = user, !.doc = document_id,
                                !.pre = <<Snapshot>>]
       IN  req' = [req EXCEPT ![r] =
               IF ~\E d \in db.documents : d.doc_id = document_id /\ d.user_id = user
               THEN [call EXCEPT !.pc = "done", !.outcome = "NotFound"]
               ELSE IF KeysOf(document_id) = {}
               THEN [call EXCEPT !.pc = "done", !.outcome = "ok"]
               ELSE [call EXCEPT !.pc = "scan", !.del = KeysOf(document_id)]]
    /\ UNCHANGED <<Memory, Disk, entries>>
    /\ Frame

\* delete_document after delete_chunks: when it returned, the Chunk rows and the
\* Document row are deleted and committed (or the commit raises and is rolled
\* back); when it raised, the handler rolls back, and no row had been touched.
DeleteDocumentCommit(r) ==
    /\ Runs(r, "done")
    /\ req[r].op = "delete"
    /\ req[r].doc # 0
    /\ req' = [req EXCEPT ![r] = Idle]
    /\ \/ /\ req[r].outcome = "ok"
          /\ db' = [documents |-> {d \in db.documents : d.doc_id # req[r].doc},
                    chunks |-> {c \in db.chunks : c.doc_id # req[r].doc}]
       \/ UNCHANGED db
    /\ UNCHANGED <<Memory, Disk, entries, proc, saved, lost, crashes, save_failures,
                   chunker, cycle>>

\* The handlers other than delete_document answer their requests.
ReturnUpload(r) ==
    /\ req[r].op # "delete"
    /\ Return(r)

\* upload_file on a database whose document ids stay within the bound.
UploadWithin(r) ==
    /\ NewDocId(db.documents) <= MaxDocs
    /\ Upload(r)

\* ------------------------------------------------------ process lifecycle
\* The process exits between requests; its memory is gone, the files stay.
Stop ==
    /\ proc = "up"
    /\ \A r \in Requests : req[r].pc = "idle"
    /\ proc' = "down"
    /\ index' = IndexFlatIP
    /\ chunk_ids' = <<>>
    /\ UNCHANGED <<Disk, req, entries, saved, lost, crashes, Outside>>

\* The program points of save_index.
SavePcs == {"save_open_index", "save_write_index", "save_open_meta", "save_dump"}

\* The process dies at any point, also in the middle of a call; lost keeps the
\* call it was in and the memory that died with it.
Crash ==
    /\ proc \in {"initialized", "up"}
    /\ crashes < MaxCrashes
    /\ crashes' = crashes + 1
    /\ proc' = "down"
    /\ index' = IndexFlatIP
    /\ chunk_ids' = <<>>
    /\ req' = [r \in Requests |-> Idle]
    /\ lost' = IF \E r \in Requests : req[r].pc # "idle"
               THEN LET r == CHOOSE q \in Requests : req[q].pc # "idle"
                    IN  <<[op |-> req[r].op, pc |-> req[r].pc,
                           outcome |-> req[r].outcome, pre |-> req[r].pre[1],
                           index |-> index, chunk_ids |-> chunk_ids]>>
               ELSE <<>>
    /\ entries' = <<>>
    /\ UNCHANGED <<Disk, saved, Outside>>

\* A slip in Start: load_index catches every exception and the store stays as
\* the constructor made it, empty.
StartCatchAll ==
    /\ proc = "down"
    /\ proc' = "initialized"
    /\ IF /\ index_file # NoFile
          /\ metadata_file # NoFile
          /\ CanReadIndex(index_file[1])
          /\ CanUnpickle(metadata_file[1])
       THEN /\ index' = read_index(index_file[1])
            /\ chunk_ids' = pickle_load(metadata_file[1])
       ELSE /\ index' = IndexFlatIP
            /\ chunk_ids' = <<>>
    /\ UNCHANGED <<Disk, req, entries, saved, lost, crashes, Outside>>

\* VectorStore.__init__ at import: an empty index and identity list, then
\* load_index, which reads the two files only when both exist; an exception of
\* read_index or pickle.load leaves the constructor and the process does not start.
Start ==
    /\ proc = "down"
    /\ IF index_file = NoFile \/ metadata_file = NoFile
       THEN /\ proc' = "initialized"
            /\ index' = IndexFlatIP
            /\ chunk_ids' = <<>>
       ELSE IF CanReadIndex(index_file[1]) /\ CanUnpickle(metadata_file[1])
       THEN /\ proc' = "initialized"
            /\ index' = read_index(index_file[1])
            /\ chunk_ids' = pickle_load(metadata_file[1])
       ELSE /\ proc' = "failed"
            /\ UNCHANGED <<index, chunk_ids>>
    /\ UNCHANGED <<Disk, req, entries, saved, lost, crashes, Outside>>

\* The application starts up and serves requests.
Serve ==
    /\ proc = "initialized"
    /\ proc' = "up"
    /\ lost' = <<>>
    /\ UNCHANGED <<Memory, Disk, req, entries, saved, crashes, Outside>>

\* ---------------------------------------------------------- specifications
Next ==
    \/ \E r \in Requests :
          \/ BeginAdd(r) \/ AddEncode(r) \/ AddIndex(r) \/ AddExtend(r)
          \/ BeginDelete(r) \/ DeleteScan(r) \/ DeleteRebuild(r) \/ DeleteAssign(r)
          \/ SaveOpenIndex(r) \/ SaveWriteIndex(r) \/ SaveOpenMeta(r) \/ SaveDump(r)
          \/ Search(r) \/ Return(r)
    \/ Stop
    \/ Start
    \/ Serve

\* The service as it runs while nothing fails but the embedding model.
Spec == Init /\ [][Next]_vars

\* The same service on a machine that may die at any point.
NextCrash ==
    \/ \E r \in Requests :
          \/ BeginAdd(r) \/ AddEncode(r) \/ AddIndex(r) \/ AddExtend(r)
          \/ BeginDelete(r) \/ DeleteScan(r) \/ DeleteRebuild(r) \/ DeleteAssign(r)
          \/ SaveOpenIndex(r) \/ SaveWriteIndex(r) \/ SaveOpenMeta(r) \/ SaveDump(r)
          \/ Return(r)
    \/ Stop
    \/ Start
    \/ Serve
    \/ Crash

SpecCrash == Init /\ [][NextCrash]_vars

\* The service when callers also pass a k that is no valid result count.
NextBadK ==
    \/ \E r \in Requests :
          \/ BeginAdd(r) \/ AddEncode(r) \/ AddIndex(r) \/ AddExtend(r)
          \/ BeginDelete(r) \/ DeleteScan(r) \/ DeleteRebuild(r) \/ DeleteAssign(r)
          \/ SaveOpenIndex(r) \/ SaveWriteIndex(r) \/ SaveOpenMeta(r) \/ SaveDump(r)
          \/ SearchBadK(r) \/ Return(r)
    \/ Stop
    \/ Start
    \/ Serve

SpecBadK == Init /\ [][NextBadK]_vars

\* One run of the service on a machine whose disk may refuse a write, followed
\* until the last failure the bound allows has been reported to its caller.
NextSaveFail ==
    \E r \in Requests :
        \/ save_failures < MaxSaveFailures /\ BeginAdd(r)
        \/ save_failures < MaxSaveFailures /\ BeginDelete(r)
        \/ AddEncode(r) \/ AddIndex(r) \/ AddExtend(r)
        \/ DeleteScan(r) \/ DeleteRebuild(r) \/ DeleteAssign(r)
        \/ SaveOpenIndex(r) \/ SaveWriteIndex(r) \/ SaveOpenMeta(r) \/ SaveDump(r)
        \/ SaveFails(r) \/ Return(r)

SpecSaveFail == Init /\ [][NextSaveFail]_vars

\* A call of chunk_text, for every text, chunk_size and overlap within the bounds.
NextChunk == ChunkCall \/ ChunkIterate \/ ChunkExit

SpecChunk == Init /\ [][NextChunk]_vars

\* The service as its users drive it: uploads and queries.
NextApp ==
    \E r \in Requests :
        \/ Upload(r) \/ AddEncode(r) \/ AddIndex(r) \/ AddExtend(r)
        \/ SaveOpenIndex(r) \/ SaveWriteIndex(r) \/ SaveOpenMeta(r) \/ SaveDump(r)
        \/ Query(r) \/ Return(r)

SpecApp == Init /\ [][NextApp]_vars

\* The store when a text of zero-norm embedding may come in.
NextZeroNorm ==
    \E r \in Requests :
        \/ BeginAddZeroNorm(r) \/ AddEncode(r) \/ AddIndex(r) \/ AddExtend(r)
        \/ BeginDelete(r) \/ DeleteScan(r) \/ DeleteRebuild(r) \/ DeleteAssign(r)
        \/ SaveOpenIndex(r) \/ SaveWriteIndex(r) \/ SaveOpenMeta(r) \/ SaveDump(r)
        \/ Return(r)

SpecZeroNorm == Init /\ [][NextZeroNorm]_vars

\* The service as its users drive it, uploading and deleting documents, on a
\* machine whose disk may refuse a write and that is stopped and started again.
NextFaults ==
    \/ \E r \in Requests :
          \/ UploadWithin(r) \/ AddEncode(r) \/ AddIndex(r) \/ AddExtend(r)
          \/ DeleteDocument(r) \/ DeleteScan(r) \/ DeleteRebuild(r) \/ DeleteAssign(r)
          \/ SaveOpenIndex(r) \/ SaveWriteIndex(r) \/ SaveOpenMeta(r) \/ SaveDump(r)
          \/ SaveFails(r) \/ DeleteDocumentCommit(r) \/ ReturnUpload(r)
    \/ Stop
    \/ Start
    \/ Serve

SpecFaults == Init /\ [][NextFaults]_vars

\* The store when callers may pass add_chunks lists of different lengths.
NextUnequal ==
    \E r \in Requests :
        \/ BeginAddUnequal(r) \/ AddEncode(r) \/ AddIndex(r) \/ AddExtend(r)
        \/ BeginDelete(r) \/ DeleteScan(r) \/ DeleteRebuild(r) \/ DeleteAssign(r)
        \/ SaveOpenIndex(r) \/ SaveWriteIndex(r) \/ SaveOpenMeta(r) \/ SaveDump(r)
        \/ Return(r)

SpecUnequal == Init /\ [][NextUnequal]_vars

\* Callers of add_chunks and delete_chunks, one of which adds a batch, deletes
\* its identities and adds it again.
NextCycle ==
    \E r \in Requests :
        \/ cycle.stage = 0 /\ BeginAdd(r)
        \/ cycle.stage = 0 /\ BeginDelete(r)
        \/ cycle.stage = 0 /\ Return(r)
        \/ DeleteBatch(r) \/ AddAgain(r) \/ CycleReturn(r)
        \/ AddEncode(r) \/ AddIndex(r) \/ AddExtend(r)
        \/ DeleteScan(r) \/ DeleteRebuild(r) \/ DeleteAssign(r)
        \/ SaveOpenIndex(r) \/ SaveWriteIndex(r) \/ SaveOpenMeta(r) \/ SaveDump(r)

SpecCycle == Init /\ [][NextCycle]_vars

\* ------------------------------------------------------------------ claims
\* No request is inside a VectorStore call.
Quiescent == \A r \in Requests : req[r].pc \in {"idle", "done"}

Running == proc \in {"initialized", "up"}

\* Request r has returned from a call of op.
Returned(r, op) == req[r].pc = "done" /\ req[r].op = op

\* C1: after any sequence of add_chunks and delete_chunks calls, starting from an
\* empty or a loaded index, chunk_ids is as long as the index, and the identity at
\* each position is the one that was added together with the vector there.
C1_OrderingInvariant ==
    (Running /\ Quiescent) =>
        /\ Len(chunk_ids) = ntotal(index)
        /\ Len(chunk_ids) = Len(entries)
        /\ \A i \in 1..Len(entries) :
               chunk_ids[i] = entries[i][1] /\ index[i] = entries[i][2]

\* C1's case: a delete_chunks that kept entries from behind a removed one has returned.
C1_Witness ==
    \E r \in Requests :
        /\ Returned(r, "delete")
        /\ req[r].outcome = "ok"
        /\ req[r].keep # <<>>
        /\ req[r].keep[1] > 0
        /\ Len(index) >= 2

\* The positions of ids whose identity is not in del.
KeptPositions(ids, del) == {i \in 1..Len(ids) : ids[i] \notin del}

\* The j-th smallest element of the set of positions K.
Nth(K, j) == CHOOSE i \in K : Cardinality({x \in K : x <= i}) = j

\* C2: delete_chunks(S) leaves exactly the entries whose identity is not in S, in
\* their order and each with the vector it had; every entry whose identity is in S,
\* duplicates included, is gone; when nothing is left the store is the empty store
\* a fresh VectorStore has.
C2_DeleteKeepsTheRest ==
    \A r \in Requests :
        (Returned(r, "delete") /\ req[r].outcome = "ok") =>
            LET old == req[r].pre[1]
                K == KeptPositions(old.chunk_ids, req[r].del)
            IN  /\ Len(chunk_ids) = Cardinality(K)
                /\ ntotal(index) = Cardinality(K)
                /\ \A j \in 1..Cardinality(K) :
                       /\ chunk_ids[j] = old.chunk_ids[Nth(K, j)]
                       /\ index[j] = old.index[Nth(K, j)]
                /\ \A j \in 1..Len(chunk_ids) : chunk_ids[j] \notin req[r].del
                /\ K = {} => (index = IndexFlatIP /\ chunk_ids = <<>>)

\* C2's case: a delete_chunks removed both entries of a duplicated identity and
\* kept another entry.
C2_Witness ==
    \E r \in Requests :
        /\ Returned(r, "delete")
        /\ req[r].outcome = "ok"
        /\ chunk_ids # <<>>
        /\ \E i, j \in 1..Len(req[r].pre[1].chunk_ids) :
               /\ i < j
               /\ req[r].pre[1].chunk_ids[i] = req[r].pre[1].chunk_ids[j]
               /\ req[r].pre[1].chunk_ids[i] \in req[r].del

\* C3: when embedding fails for a text of an add_chunks batch, nothing of the batch
\* is committed: the index, the identity list and the two files are as they were
\* when the call began (so the whole add can be retried).
C3_FailedAddCommitsNothing ==
    \A r \in Requests :
        (Returned(r, "add") /\ req[r].outcome = "EncodeRaised") =>
            Snapshot = req[r].pre[1]

\* C3's case: an add_chunks of two texts on a non-empty store failed in the embedder.
C3_Witness ==
    \E r \in Requests :
        /\ Returned(r, "add")
        /\ req[r].outcome = "EncodeRaised"
        /\ Len(req[r].texts) = 2
        /\ index # <<>>

\* What load_index makes of the two files when they can be read.
Loaded(files) ==
    IF files[1] = NoFile \/ files[2] = NoFile
    THEN <<IndexFlatIP, <<>>>>
    ELSE <<read_index(files[1][1]), pickle_load(files[2][1])>>

\* C4: the two snapshot files are replaced together or not at all: after a crash
\* at any point of save_index, the next load_index yields the complete state of
\* before the save or the complete state that was being saved, never the vectors of
\* one with the identities of the other.
C4_SnapshotPairAtomic ==
    (proc = "initialized" /\ lost # <<>> /\ lost[1].pc \in SavePcs) =>
        \/ Memory = Loaded(<<lost[1].pre.index_file, lost[1].pre.metadata_file>>)
        \/ Memory = <<lost[1].index, lost[1].chunk_ids>>

\* The files hold exactly what is in memory.
Persisted ==
    /\ index_file # NoFile
    /\ metadata_file # NoFile
    /\ CanReadIndex(index_file[1])
    /\ CanUnpickle(metadata_file[1])
    /\ read_index(index_file[1]) = index
    /\ pickle_load(metadata_file[1]) = chunk_ids

\* C5: whenever add_chunks or delete_chunks has returned successfully after
\* changing the index, the files hold the in-memory state; and the start-up after a
\* crash that follows a successful return restores that state in full.
C5_PersistedAtReturn ==
    /\ \A r \in Requests :
           ( /\ req[r].pc = "done"
             /\ req[r].op \in {"add", "delete"}
             /\ req[r].outcome = "ok"
             /\ Memory # <<req[r].pre[1].index, req[r].pre[1].chunk_ids>> )
           => Persisted
    /\ ( /\ proc = "initialized"
         /\ lost # <<>>
         /\ lost[1].pc = "done"
         /\ lost[1].op \in {"add", "delete"}
         /\ lost[1].outcome = "ok" )
       => Memory = <<lost[1].index, lost[1].chunk_ids>>

\* C5's case: the process died right after a successful add_chunks returned, and
\* the next start-up has loaded a non-empty store.
C5_Witness ==
    /\ proc = "initialized"
    /\ lost # <<>>
    /\ lost[1].pc = "done"
    /\ lost[1].op = "add"
    /\ lost[1].outcome = "ok"
    /\ Len(lost[1].index) > Len(lost[1].pre.index)
    /\ index # <<>>

\* C6: add_chunks, delete_chunks and search exclude one another: at most one
\* request is inside a VectorStore call, and every call found, when it began, an
\* index and an identity list of the same length.
C6_MutualExclusion ==
    /\ Cardinality({r \in Requests : req[r].pc # "idle"}) <= 1
    /\ \A r \in Requests :
           req[r].pre # <<>> =>
               ntotal(req[r].pre[1].index) = Len(req[r].pre[1].chunk_ids)

\* C6's case: one request is between index.add and chunk_ids.extend, the index
\* and the identity list differ in length, and the other request has not run.
C6_Witness ==
    \E r \in Requests :
        /\ req[r].pc = "extend"
        /\ ntotal(index) # Len(chunk_ids)
        /\ \A q \in Requests \ {r} : req[q].pc = "idle"

\* What search may answer on a store, for one query, threshold and k.
SearchAnswers(idx, ids, query, threshold, k) ==
    IF ntotal(idx) = 0 THEN {<<>>}
    ELSE {SearchResults(hits, ids, threshold) :
              hits \in {h \in IndexSearch(idx, encode_text(query), k) :
                            ~SearchRaises(h, ids, threshold)}}

\* C7: save_index followed by load_index reproduces the index: the loaded rows
\* and identities equal, position by position, those saved, and search answers any
\* query as it did on the saved store.
C7_SaveLoadRoundTrip ==
    (proc = "initialized" /\ saved # <<>>) =>
        /\ index = saved[1].index
        /\ chunk_ids = saved[1].chunk_ids
        /\ \A query \in Texts, threshold \in Thresholds, k \in 1..MaxK :
               SearchAnswers(index, chunk_ids, query, threshold, k)
                   = SearchAnswers(saved[1].index, saved[1].chunk_ids, query, threshold, k)

\* C7's case: a start-up has loaded a snapshot of two or more entries with
\* different vectors.
C7_Witness ==
    /\ proc = "initialized"
    /\ saved # <<>>
    /\ Len(index) >= 2
    /\ index[1] # index[2]

\* The scores of the rows of idx for a query text.
Scores(idx, query) == [i \in 1..Len(idx) |-> InnerProduct(encode_text(query), idx[i])]

\* T is a set of k highest-scoring positions (all of them when there are fewer).
IsTopK(T, score, k) ==
    /\ Cardinality(T) = Min(k, Len(score))
    /\ \A i \in T, j \in (1..Len(score)) \ T : score[j] <= score[i]

\* C8: search(query, threshold, k) returns exactly those of the k highest-scoring
\* stored entries whose score is at least threshold, each once, with its identity
\* and score: nothing below the threshold, nothing of the top k at or above it left out.
C8_SearchExact ==
    \A r \in Requests :
        (Returned(r, "search") /\ req[r].outcome = "ok") =>
            LET old == req[r].pre[1]
                score == Scores(old.index, req[r].texts[1])
                res == req[r].result
            IN  \E T \in SUBSET (1..Len(score)) :
                    /\ IsTopK(T, score, req[r].k)
                    /\ LET W == {i \in T : FloatGE(score[i], req[r].threshold)}
                       IN  /\ Len(res) = Cardinality(W)
                           /\ \E f \in [1..Len(res) -> W] :
                                  /\ \A i, j \in 1..Len(res) : i # j => f[i] # f[j]
                                  /\ \A j \in 1..Len(res) :
                                         res[j] = <<old.chunk_ids[f[j]], score[f[j]]>>

\* C9: search never returns more than k results; with k = 1 on a non-empty index
\* it returns one result when some entry reaches the threshold and none otherwise.
C9_AtMostK ==
    \A r \in Requests :
        (Returned(r, "search") /\ req[r].outcome = "ok") =>
            LET old == req[r].pre[1]
                score == Scores(old.index, req[r].texts[1])
                reached == \E i \in 1..Len(score) : FloatGE(score[i], req[r].threshold)
            IN  /\ Len(req[r].result) <= req[r].k
                /\ (req[r].k = 1 /\ ntotal(old.index) > 0) =>
                       Len(req[r].result) = IF reached THEN 1 ELSE 0

\* C9's case: a search with k = 1 on an index of several entries that reach the
\* threshold has returned one result.
C9_Witness ==
    \E r \in Requests :
        /\ Returned(r, "search")
        /\ req[r].outcome = "ok"
        /\ req[r].k = 1
        /\ Len(req[r].result) = 1
        /\ Cardinality({i \in 1..Len(index) :
               FloatGE(Scores(index, req[r].texts[1])[i], req[r].threshold)}) >= 2

\* The slots of a FAISS answer that reach the threshold, in order.
Passing(hits, threshold) == SelectSeq(hits, LAMBDA h : FloatGE(h[1], threshold))

\* The j-th of the positions L in the order of descending score, earlier position
\* first among equal scores.
StableNth(L, score, j) ==
    CHOOSE p \in L :
        Cardinality({x \in L : score[x] > score[p] \/ (score[x] = score[p] /\ x <= p)}) = j

\* C10: the sequence search returns is sorted by descending score, and entries of
\* equal score appear in insertion order, the entry added earlier first.
C10_SortedStableTies ==
    \A r \in Requests :
        (Returned(r, "search") /\ req[r].outcome = "ok") =>
            LET old == req[r].pre[1]
                score == Scores(old.index, req[r].texts[1])
                P == Passing(req[r].hits, req[r].threshold)
                L == {P[i][2] + 1 : i \in {x \in 1..Len(P) : P[x][2] >= 0}}
                res == req[r].result
            IN  /\ \A i, j \in 1..Len(res) : i < j => res[i][2] >= res[j][2]
                /\ Len(res) >= Cardinality(L)
                /\ \A j \in 1..Cardinality(L) :
                       res[j] = <<old.chunk_ids[StableNth(L, score, j)],
                                  score[StableNth(L, score, j)]>>

\* C11: search called with k <= 0 fails with a validation error, on an empty and
\* on a non-empty index, and leaves the index, the identity list and the files
\* as they were.
C11_BadKRejected ==
    \A r \in Requests :
        (Returned(r, "search") /\ req[r].k <= 0) =>
            /\ req[r].outcome = "ValidationError"
            /\ Snapshot = req[r].pre[1]

C13_SaveFailureKeepsMemory ==
    \A r \in Requests :
        (req[r].pc = "done" /\ req[r].outcome = "SaveRaised") =>
            LET old == req[r].pre[1]
                K == KeptPositions(old.chunk_ids, req[r].del)
            IN  /\ Len(chunk_ids) = ntotal(index)
                /\ req[r].op \in {"add", "delete"}
                /\ req[r].op = "add" =>
                       /\ chunk_ids = old.chunk_ids \o req[r].ids
                       /\ index = old.index \o
                              [i \in 1..Len(req[r].texts) |-> encode_text(req[r].texts[i])]
                /\ req[r].op = "delete" =>
                       /\ Len(chunk_ids) = Cardinality(K)
                       /\ \A j \in 1..Cardinality(K) :
                              /\ chunk_ids[j] = old.chunk_ids[Nth(K, j)]
                              /\ index[j] = old.index[Nth(K, j)]

\* C13's case: an add_chunks of two texts on a non-empty store has ended with the
\* error of save_index, and the files do not hold what memory holds.
C13_Witness ==
    \E r \in Requests :
        /\ Returned(r, "add")
        /\ req[r].outcome = "SaveRaised"
        /\ Len(req[r].texts) = 2
        /\ req[r].pre[1].index # <<>>
        /\ ~Persisted

\* C14: a successful add_chunks(texts, ids) appends the batch at the end of the
\* store in input order, the j-th identity with the embedding of the j-th text,
\* and every entry stored before keeps its position, identity and vector.
C14_AddAppendsInOrder ==
    \A r \in Requests :
        (Returned(r, "add") /\ req[r].outcome = "ok") =>
            LET old == req[r].pre[1]
                n == Len(old.chunk_ids)
            IN  /\ Len(chunk_ids) = n + Len(req[r].ids)
                /\ ntotal(index) = ntotal(old.index) + Len(req[r].texts)
                /\ \A i \in 1..n :
                       chunk_ids[i] = old.chunk_ids[i] /\ index[i] = old.index[i]
                /\ \A j \in 1..Len(req[r].texts) :
                       /\ chunk_ids[n + j] = req[r].ids[j]
                       /\ index[n + j] = encode_text(req[r].texts[j])

\* C14's case: an add_chunks of two texts with different embeddings and two
\* different identities has returned on a store that held an entry.
C14_Witness ==
    \E r \in Requests :
        /\ Returned(r, "add")
        /\ req[r].outcome = "ok"
        /\ Len(req[r].texts) = 2
        /\ encode_text(req[r].texts[1]) # encode_text(req[r].texts[2])
        /\ req[r].ids[1] # req[r].ids[2]
        /\ req[r].pre[1].chunk_ids # <<>>

\* C15: chunk_text terminates for every text, chunk_size and overlap, also for
\* overlap >= chunk_size: no pass through the loop leaves the start offset where
\* it was or moves it back and goes on to the next pass.
C15_Terminates ==
    [][(chunker.pc = "loop" /\ chunker'.pc = "loop") => chunker'.start > chunker.start]_vars

\* The offset in the text of a non-empty segment (the texts have distinct characters).
Offset(chunk) ==
    CHOOSE i \in 0..Len(Alphabet) : SubSeq(Alphabet, i + 1, i + Len(chunk)) = chunk

\* The positions of the text (counted from 0) a non-empty segment holds.
Span(chunk) == Offset(chunk)..(Offset(chunk) + Len(chunk) - 1)

\* chunk_text has returned for a non-empty text and chunk_size > overlap >= 0.
Chunked ==
    /\ chunker.pc = "done"
    /\ chunker.text # ""
    /\ chunker.chunk_size > chunker.overlap

\* C16: for a non-empty text and chunk_size > overlap >= 0 the segments cover the
\* text with no gap: every character position lies in a segment, the first
\* segment starts at offset 0, each next one starts no later than the one before
\* it ends, and the last one reaches the end of the text.
C16_CoversText ==
    Chunked =>
        LET chunks == chunker.chunks
            n == Len(chunks)
        IN  /\ n >= 1
            /\ \A i \in 1..n : chunks[i] # ""
            /\ Offset(chunks[1]) = 0
            /\ \A i \in 1..(n - 1) :
                   Offset(chunks[i + 1]) <= Offset(chunks[i]) + Len(chunks[i])
            /\ Offset(chunks[n]) + Len(chunks[n]) = Len(chunker.text)
            /\ \A p \in 0..(Len(chunker.text) - 1) : \E i \in 1..n : p \in Span(chunks[i])

\* C16's case: a text was cut into three or more overlapping segments.
C16_Witness ==
    /\ Chunked
    /\ chunker.overlap >= 1
    /\ Len(chunker.chunks) >= 3
    /\ Len(chunker.text) > chunker.chunk_size

\* C17: for chunk_size > overlap >= 0, each segment after the first starts
\* exactly chunk_size - overlap characters after the start of the one before it.
C17_Stride ==
    Chunked =>
        \A i \in 1..(Len(chunker.chunks) - 1) :
            Offset(chunker.chunks[i + 1])
                = Offset(chunker.chunks[i]) + (chunker.chunk_size - chunker.overlap)

\* C17's case: three or more segments with a stride of two or more characters and
\* an overlap.
C17_Witness ==
    /\ Chunked
    /\ chunker.overlap >= 1
    /\ chunker.chunk_size - chunker.overlap >= 2
    /\ Len(chunker.chunks) >= 3

\* C18: every two consecutive segments, the last pair included, have exactly
\* overlap characters in common.
C18_ExactOverlap ==
    Chunked =>
        \A i \in 1..(Len(chunker.chunks) - 1) :
            Cardinality(Span(chunker.chunks[i]) \cap Span(chunker.chunks[i + 1]))
                = chunker.overlap

\* The user that owns document doc_id.
Owner(doc_id) == (CHOOSE d \in db.documents : d.doc_id = doc_id).user_id

\* C19: the response to a user's query holds only chunks of documents that user
\* owns.
C19_QueryOwnChunksOnly ==
    \A r \in Requests :
        (Returned(r, "query") /\ req[r].outcome = "ok") =>
            \A i \in 1..Len(req[r].response) :
                Owner(req[r].response[i].doc_id) = req[r].user

\* C20: after an upload of a document with n chunks, the index holds for that
\* document exactly the identities (0, doc), ..., (n-1, doc), each once, and the
\* identity with local index i is stored with the embedding of the i-th chunk
\* of the document's text; the chunk row with that key holds that chunk.
C20_IngestOrder ==
    \A r \in Requests :
        (Returned(r, "add") /\ req[r].doc # 0 /\ req[r].outcome = "ok") =>
            LET doc == req[r].doc
                chunks == chunk_text(req[r].text, DefaultChunkSize, DefaultOverlap)
                n == Len(chunks)
                at == {p \in 1..Len(chunk_ids) : chunk_ids[p][2] = doc}
            IN  /\ Cardinality(at) = n
                /\ \A i \in 0..(n - 1) :
                       /\ \E p \in at :
                              /\ chunk_ids[p] = <<i, doc>>
                              /\ index[p] = encode_text(chunks[i + 1])
                       /\ \E c \in db.chunks :
                              /\ <<c.chunk_id, c.doc_id>> = <<i, doc>>
                              /\ c.chunk_idx = i
                              /\ c.chunk_content = chunks[i + 1]

\* C20's case: a document of two or more chunks with different embeddings has
\* been ingested after another document.
C20_Witness ==
    \E r \in Requests :
        /\ Returned(r, "add")
        /\ req[r].outcome = "ok"
        /\ req[r].doc >= 2
        /\ Len(req[r].texts) >= 2
        /\ encode_text(req[r].texts[1]) # encode_text(req[r].texts[2])

\* C21: adding the chunks of a document, deleting all their identities and
\* adding the chunks again leaves the store with the identity set a single add
\* of them on the same starting store leaves, and with the same entries for the
\* document: the batch at the end of the store, each identity with its vector;
\* and the very same store when the starting store held none of the identities.
C21_ReaddSameIdentities ==
    cycle.stage = 3 =>
        LET first == cycle.first[1]
            n == Len(cycle.ids)
            m == Len(first.chunk_ids) - n
            was_new == Identities(cycle.ids) \cap Identities(SubSeq(first.chunk_ids, 1, m)) = {}
        IN  /\ Identities(chunk_ids) = Identities(first.chunk_ids)
            /\ ntotal(index) = Len(chunk_ids)
            /\ Len(chunk_ids) >= n
            /\ \A j \in 1..n :
                   /\ chunk_ids[Len(chunk_ids) - n + j] = first.chunk_ids[m + j]
                   /\ index[Len(chunk_ids) - n + j] = first.index[m + j]
            /\ was_new => Memory = <<first.index, first.chunk_ids>>

\* C21's case: a chunk whose identity was new to a store of two entries with
\* different vectors has been added, deleted and added again.
C21_Witness ==
    /\ cycle.stage = 3
    /\ Len(cycle.first[1].chunk_ids) = 3
    /\ Identities(cycle.ids) \cap Identities(SubSeq(cycle.first[1].chunk_ids, 1, 2)) = {}
    /\ cycle.first[1].index[1] # cycle.first[1].index[2]

\* C22: search on an empty index, one freshly constructed with no snapshot or
\* one emptied by delete_chunks, returns the empty sequence and raises no error,
\* for every query, threshold and k, and changes nothing.
C22_EmptyIndexSearch ==
    \A r \in Requests :
        (Returned(r, "search") /\ ntotal(req[r].pre[1].index) = 0) =>
            /\ req[r].outcome = "ok"
            /\ req[r].result = <<>>
            /\ Snapshot = req[r].pre[1]

\* C22's case: a search with threshold -infinity has returned on a store that
\* delete_chunks had emptied (the snapshot files hold the empty store).
C22_Witness ==
    \E r \in Requests :
        /\ Returned(r, "search")
        /\ req[r].threshold = NegInf
        /\ req[r].k > 1
        /\ index = IndexFlatIP
        /\ index_file = <<write_index(IndexFlatIP)>>
        /\ metadata_file = <<pickle_dump(<<>>)>>

\* C23: delete_chunks called with identities none of which is in the store
\* raises no error and leaves the identity list and every stored vector as they
\* were, on an empty and on a non-empty store.
C23_DeleteAbsentIsNoOp ==
    \A r \in Requests :
        ( /\ Returned(r, "delete")
          /\ req[r].del \cap Identities(req[r].pre[1].chunk_ids) = {} )
        => /\ req[r].outcome = "ok"
           /\ Memory = <<req[r].pre[1].index, req[r].pre[1].chunk_ids>>

\* C23's case: a delete_chunks of an identity the store does not hold has
\* returned on a store of two entries with different vectors.
C23_Witness ==
    \E r \in Requests :
        /\ Returned(r, "delete")
        /\ req[r].del # {}
        /\ req[r].del \cap Identities(req[r].pre[1].chunk_ids) = {}
        /\ Len(req[r].pre[1].index) >= 2
        /\ req[r].pre[1].index[1] # req[r].pre[1].index[2]

\* C24: when the raw embedding of a text has zero norm the embedder fails with
\* an EmbeddingError: no vector is handed to add_chunks for a batch that holds
\* such a text, the call does not succeed, and no stored vector has a component
\* that is not a number.
C24_ZeroNormRejected ==
    /\ \A r \in Requests :
           (\E i \in 1..Len(req[r].texts) : Norm(ModelEncode(req[r].texts[i])) = 0) =>
               /\ req[r].embeddings = <<>>
               /\ req[r].pc = "done" => req[r].outcome \in {"EmbeddingError", "EncodeRaised"}
    /\ \A i \in 1..Len(index) : \A j \in 1..dimension : ~IsNaN(index[i][j])

\* C25: search accepts every threshold, also outside [-1, 1], without error, and
\* for every threshold each returned pair names a distinct stored entry with its
\* true score, so there are never more results than min(k, ntotal), also when k
\* is larger than ntotal and FAISS pads its answer with placeholder slots.
C25_AnyThreshold ==
    \A r \in Requests :
        Returned(r, "search") =>
            /\ req[r].outcome \in {"ok", "EncodeRaised"}
            /\ req[r].outcome = "ok" =>
                   LET old == req[r].pre[1]
                       score == Scores(old.index, req[r].texts[1])
                       res == req[r].result
                   IN  /\ Len(res) <= Min(req[r].k, ntotal(old.index))
                       /\ \E f \in [1..Len(res) -> 1..ntotal(old.index)] :
                              /\ \A i, j \in 1..Len(res) : i # j => f[i] # f[j]
                              /\ \A j \in 1..Len(res) :
                                     res[j] = <<old.chunk_ids[f[j]], score[f[j]]>>

\* C26: at every point of any sequence of uploads, document deletions, failed
\* requests and restarts, every identity in the identity list of the index has
\* a Chunk row with that key, so every search hit resolves to chunk content.
C26_IndexedIdentitiesHaveRows ==
    \A i \in 1..Len(chunk_ids) :
        \E c \in db.chunks : <<c.chunk_id, c.doc_id>> = chunk_ids[i]

\* C26's case: the first document has been deleted, the deletion of the second
\* has failed in save_index, and a restart has loaded the files that save left
\* behind, an index and an identity list of different lengths.
C26_Witness ==
    /\ proc = "up"
    /\ \A r \in Requests : req[r].pc = "idle"
    /\ save_failures = 1
    /\ \A d \in db.documents : d.doc_id = 2
    /\ chunk_ids # <<>>
    /\ ntotal(index) # Len(chunk_ids)

\* C27: an upload is all-or-nothing across the relational store and the index:
\* if the request fails while embedding, inserting into the index or saving it,
\* no Document row and no Chunk row of that upload remains committed.
C27_UploadAllOrNothing ==
    \A r \in Requests :
        (Returned(r, "add") /\ req[r].doc # 0 /\ req[r].outcome # "ok") =>
            /\ \A d \in db.documents : d.doc_id # req[r].doc
            /\ \A c \in db.chunks : c.doc_id # req[r].doc

\* C28: load_index leaves the index empty only when no snapshot file exists: if
\* either file is there at start-up, the construction restores the saved entries
\* or raises; a surviving file is never passed over in silence.
C28_NoArtifactIgnored ==
    (proc = "initialized" /\ (index_file # NoFile \/ metadata_file # NoFile)) =>
        /\ index_file # NoFile
        /\ metadata_file # NoFile
        /\ Memory = Loaded(<<index_file, metadata_file>>)

\* C29: for every call add_chunks(texts, chunk_ids), whatever the lengths of the
\* two lists, as many identities are appended to chunk_ids as vectors to the
\* index: no call leaves the identity list and the index with different lengths.
C29_AddKeepsLengths ==
    \A r \in Requests :
        Returned(r, "add") =>
            /\ Len(chunk_ids) - Len(req[r].pre[1].chunk_ids)
                   = ntotal(index) - ntotal(req[r].pre[1].index)
            /\ Len(chunk_ids) = ntotal(index)

\* C30: for every text and chunk_size > overlap >= 0, each segment after the
\* first holds a character beyond the end of the segment before it: chunk_text
\* emits no trailing segment that lies wholly inside its predecessor.
C30_NoContainedSegment ==
    Chunked =>
        \A i \in 2..Len(chunker.chunks) :
            Offset(chunker.chunks[i]) + Len(chunker.chunks[i])
                > Offset(chunker.chunks[i - 1]) + Len(chunker.chunks[i - 1])

====
